---- MODULE Spec2Model ----
(***************************************************************************)
(* The per-peer dial worker of p2p/net/swarm/dial_worker.go: the loop      *)
(* (requests, dial timer, dial results), addNewRequest, handleSuccess,     *)
(* handleError, dispatchError, cleanup and the dialQueue; and the UDP mux   *)
(* of package udpmux: GetConn, Close, RemoveConnByUfrag, the read loop,    *)
(* processPacket and the udpMuxStorage. The dialQueue and the flow table   *)
(* of the mux have a specification of their own as well.                   *)
(*                                                                         *)
(* Addresses are 1..NumAddrs, requests are numbered in the order the loop  *)
(* reads them, connections carry the number of the dial that made them.    *)
(* The swarm collaborators (bestAcceptableConnToPeer, addrsForDial, the    *)
(* ranker, dialNextAddr, addConn) are not in the source: their results are *)
(* inputs chosen with \E in the actions.                                   *)
(***************************************************************************)
EXTENDS Integers, Sequences, FiniteSets, TLC

\* ------------------------------------------------------------------ bounds
NumAddrs == 2
MaxReqs == 2
MaxDelay == 1

Addrs == 1..NumAddrs
ReqIds == 1..MaxReqs
MaxTime == MaxDelay

\* ------------------------------------------------------------ program values
NoConn == 0
NoErr == "nil"
NoAddr == 0
ErrDialBackoff == "ErrDialBackoff"
ErrAllDialsFailed == "ErrAllDialsFailed"
startTime == 0
NeverFires == MaxTime + 1

VARIABLES
  pc,               \* "loop", "cleanup" (reqch closed, draining), "done"
  now,              \* the clock
  nextReq,          \* the number of the next request read from reqch
  cancelled,        \* the cancelled ctxs among those the worker still holds
  pendingRequests,  \* w.pendingRequests
  trackedDials,     \* w.trackedDials: address -> addrDial
  dq,               \* w.dq.q
  connected,        \* w.connected
  dialsInFlight,    \* w.dialsInFlight
  totalDials,       \* w.totalDials
  timerRunning,     \* timerRunning of loop
  timerAt,          \* the instant dialTimer is set to
  dials,            \* the dials spawned by dialNextAddr that still have results to send
  resps,            \* per request, what has been written to its resch
  swarmConns,       \* the connections addConn accepted
  closedConns,      \* the connections that have been closed
  dialCalls,        \* per address, the number of dialNextAddr calls
  createdBy,        \* per address, the request that created its addrDial
  connectedAt,      \* the instant connected was set
  written,          \* the requests the last handleSuccess answered, in the order of its writes
  reqAddrs          \* per request, the addresses addNewRequest was called with

\* the UDP mux
VARIABLES
  storage,          \* mux.storage: ufragMap, addrMap, and the muxedConnections made
  ctxDone,          \* mux.ctx is cancelled
  socketClosed,     \* mux.socket.Close() was called
  rl,               \* the goroutine of Start: where readLoop is, and its packet
  closers,          \* per caller of Close, where it is
  getter,           \* the caller of GetConn: where it is, its arguments
  last,             \* the last call that returned: GetConn, RemoveConnByUfrag, processPacket
  cbCalls           \* the calls of unknownUfragCallback

\* the dial queue on its own
VARIABLES
  qlast             \* the last call of dialQueue made there: its arguments, the
                    \* queue it found, the batch it returned

mvars == <<storage, ctxDone, socketClosed, rl, closers, getter, last, cbCalls>>

wvars == <<pendingRequests, trackedDials, dq, connected, dialsInFlight, totalDials,
           timerRunning, timerAt, dials, resps, swarmConns, closedConns, dialCalls,
           createdBy, connectedAt, written>>
wkvars == <<pc, now, nextReq, cancelled, reqAddrs, wvars, qlast>>
vars == <<wkvars, mvars>>

Min(S) == CHOOSE x \in S : \A y \in S : x <= y

\* ------------------------------------------------------------------ dialQueue

dqLen(q) == Len(q)

dqRemoveAt(q, i) == SubSeq(q, 1, i - 1) \o SubSeq(q, i + 1, Len(q))

\* the entry goes to the end of the queue
dqInsertAtEnd(q, adelay) == Append(q, adelay)

dqInsert(q, adelay) ==
  LET later == {i \in 1..Len(q) : q[i].Delay > adelay.Delay}
  IN  IF later = {} THEN Append(q, adelay)
      ELSE LET i == Min(later)
           IN  SubSeq(q, 1, i - 1) \o <<adelay>> \o SubSeq(q, i, Len(q))

dqAddAlwaysInsert(q, adelay) == dqInsert(q, adelay)

dqAdd(q, adelay) ==
  LET same == {i \in 1..Len(q) : q[i].Addr = adelay.Addr}
  IN  IF same = {} THEN dqInsert(q, adelay)
      ELSE LET i == Min(same)
           IN  IF q[i].Delay = adelay.Delay THEN q
               ELSE dqInsert(dqRemoveAt(q, i), adelay)

\* only the first entry is taken
dqNextBatchOne(q) ==
  IF Len(q) = 0 THEN [batch |-> <<>>, rest |-> <<>>]
  ELSE [batch |-> SubSeq(q, 1, 1), rest |-> SubSeq(q, 2, Len(q))]

dqNextBatch(q) ==
  IF Len(q) = 0 THEN [batch |-> <<>>, rest |-> <<>>]
  ELSE LET other == {i \in 1..Len(q) : q[i].Delay # q[1].Delay}
           n == IF other = {} THEN Len(q) ELSE Min(other) - 1
       IN  [batch |-> SubSeq(q, 1, n), rest |-> SubSeq(q, n + 1, Len(q))]

dqTop(q) == q[1]

\* ------------------------------------------------------------------ helpers

\* the worker's fields as one record, so that the handlers are operators on it
W == [pendingRequests |-> pendingRequests, trackedDials |-> trackedDials, dq |-> dq,
      connected |-> connected, dialsInFlight |-> dialsInFlight,
      totalDials |-> totalDials, timerRunning |-> timerRunning, timerAt |-> timerAt,
      dials |-> dials, resps |-> resps, swarmConns |-> swarmConns,
      closedConns |-> closedConns, dialCalls |-> dialCalls, createdBy |-> createdBy,
      connectedAt |-> connectedAt, written |-> written]

\* the requests whose ctx the worker w still holds: pending, or the ctx of an
\* addrDial without a terminal result
liveCtx(w) ==
  {pr.req.id : pr \in w.pendingRequests}
    \cup {w.trackedDials[a].ctx.id : a \in {x \in DOMAIN w.trackedDials :
                                             /\ w.trackedDials[x].conn = NoConn
                                             /\ w.trackedDials[x].err = NoErr}}

Apply(w) ==
  /\ UNCHANGED <<mvars, qlast>>
  /\ cancelled' = cancelled \cap liveCtx(w)
  /\ pendingRequests' = w.pendingRequests
  /\ trackedDials' = w.trackedDials
  /\ dq' = w.dq
  /\ connected' = w.connected
  /\ dialsInFlight' = w.dialsInFlight
  /\ totalDials' = w.totalDials
  /\ timerRunning' = w.timerRunning
  /\ timerAt' = w.timerAt
  /\ dials' = w.dials
  /\ resps' = w.resps
  /\ swarmConns' = w.swarmConns
  /\ closedConns' = w.closedConns
  /\ dialCalls' = w.dialCalls
  /\ createdBy' = w.createdBy
  /\ connectedAt' = w.connectedAt
  /\ written' = w.written

\* req.resch <- dialResponse{conn, err}; err is a cause and the DialErrors with it,
\* by is the function that writes it
dialResponse(c, cause, errs, by) == [conn |-> c, cause |-> cause, errs |-> errs, by |-> by]

Send(w, r, resp) == [w EXCEPT !.resps[r] = Append(@, resp)]

\* DialError.recordErr
recordErr(errs, a, err) == errs \cup {<<a, err>>}

\* network.WithSimultaneousConnect: a child of ctx, cancelled with it
WithSimultaneousConnect(ctx) == [ctx EXCEPT !.sim = TRUE]

\* ctx.Done() is closed
Cancelled(ctx) == ctx.id \in cancelled

\* what bestAcceptableConnToPeer may return as a connection
Acceptable == swarmConns \ closedConns

\* ------------------------------------------------------------ scheduleNextDial

\* scheduleNextDial that always triggers the next dials immediately
scheduleNextDialAtOnce(w) ==
  IF dqLen(w.dq) > 0
  THEN [w EXCEPT !.timerRunning = TRUE, !.timerAt = startTime]
  ELSE [w EXCEPT !.timerRunning = FALSE, !.timerAt = startTime]

\* scheduleNextDial that stops the timer and never sets it again
scheduleNextDialNoReset(w) == [w EXCEPT !.timerRunning = FALSE, !.timerAt = startTime]

\* the timer is set to the delay of the top of the queue in every case
scheduleNextDialAlwaysPaced(w) ==
  IF dqLen(w.dq) > 0
  THEN [w EXCEPT !.timerRunning = TRUE, !.timerAt = startTime + dqTop(w.dq).Delay]
  ELSE [w EXCEPT !.timerRunning = FALSE]

scheduleNextDial(w) ==
  IF dqLen(w.dq) > 0
  THEN [w EXCEPT !.timerRunning = TRUE,
                 !.timerAt = IF w.dialsInFlight = 0 /\ ~w.connected
                             THEN startTime
                             ELSE startTime + dqTop(w.dq).Delay]
  ELSE [w EXCEPT !.timerRunning = FALSE, !.timerAt = startTime]

\* --------------------------------------------------------------- dispatchError

\* dispatchError that answers a request at the first error of one of its addresses
dispatchErrorFirstError(w, a, err, probe) ==
  LET hit == {pr \in w.pendingRequests : a \in pr.addrs}
      upd(pr) == [pr EXCEPT !.err = recordErr(@, a, err), !.addrs = @ \ {a}]
      exhausted == hit
      resp(pr) == IF probe[pr.req.id] # NoConn
                  THEN dialResponse(probe[pr.req.id], NoErr, {}, "dispatchError")
                  ELSE dialResponse(NoConn, ErrAllDialsFailed, upd(pr).err, "dispatchError")
      tracked == [w.trackedDials EXCEPT ![a].err = err]
  IN  [w EXCEPT
        !.pendingRequests = (@ \ hit) \cup {upd(pr) : pr \in hit \ exhausted},
        !.resps = [r \in DOMAIN @ |->
                     IF \E pr \in exhausted : pr.req.id = r
                     THEN Append(@[r], resp(CHOOSE pr \in exhausted : pr.req.id = r))
                     ELSE @[r]],
        !.trackedDials = IF err = ErrDialBackoff
                         THEN [x \in DOMAIN tracked \ {a} |-> tracked[x]]
                         ELSE tracked]

\* dispatchError that clears the addrDial on every error
dispatchErrorAlwaysClears(w, a, err, probe) ==
  LET hit == {pr \in w.pendingRequests : a \in pr.addrs}
      upd(pr) == [pr EXCEPT !.err = recordErr(@, a, err), !.addrs = @ \ {a}]
      exhausted == {pr \in hit : upd(pr).addrs = {}}
      resp(pr) == IF probe[pr.req.id] # NoConn
                  THEN dialResponse(probe[pr.req.id], NoErr, {}, "dispatchError")
                  ELSE dialResponse(NoConn, ErrAllDialsFailed, upd(pr).err, "dispatchError")
      tracked == [w.trackedDials EXCEPT ![a].err = err]
  IN  [w EXCEPT
        !.pendingRequests = (@ \ hit) \cup {upd(pr) : pr \in hit \ exhausted},
        !.resps = [r \in DOMAIN @ |->
                     IF \E pr \in exhausted : pr.req.id = r
                     THEN Append(@[r], resp(CHOOSE pr \in exhausted : pr.req.id = r))
                     ELSE @[r]],
        !.trackedDials = IF err # NoErr
                         THEN [x \in DOMAIN tracked \ {a} |-> tracked[x]]
                         ELSE tracked]

\* probe[r] is what bestAcceptableConnToPeer(pr.req.ctx) returns for request r
dispatchError(w, a, err, probe) ==
  LET hit == {pr \in w.pendingRequests : a \in pr.addrs}
      upd(pr) == [pr EXCEPT !.err = recordErr(@, a, err), !.addrs = @ \ {a}]
      exhausted == {pr \in hit : upd(pr).addrs = {}}
      resp(pr) == IF probe[pr.req.id] # NoConn
                  THEN dialResponse(probe[pr.req.id], NoErr, {}, "dispatchError")
                  ELSE dialResponse(NoConn, ErrAllDialsFailed, upd(pr).err, "dispatchError")
      tracked == [w.trackedDials EXCEPT ![a].err = err]
  IN  [w EXCEPT
        !.pendingRequests = (@ \ hit) \cup {upd(pr) : pr \in hit \ exhausted},
        !.resps = [r \in DOMAIN @ |->
                     IF \E pr \in exhausted : pr.req.id = r
                     THEN Append(@[r], resp(CHOOSE pr \in exhausted : pr.req.id = r))
                     ELSE @[r]],
        !.trackedDials = IF err = ErrDialBackoff
                         THEN [x \in DOMAIN tracked \ {a} |-> tracked[x]]
                         ELSE tracked]

\* --------------------------------------------------------------- addNewRequest

\* w.trackedDials[addr] = &addrDial{addr, ctx: req.ctx, createdAt}
newAddrDial(req) == [ctx |-> req.ctx, conn |-> NoConn, err |-> NoErr, dialed |-> FALSE]

track(t, a, ad) == [x \in DOMAIN t \cup {a} |-> IF x = a THEN ad ELSE t[x]]

\* the upgrade takes the ctx of the request instead of the addrDial's
upgradeCtxFromReq(ad, req) == WithSimultaneousConnect(req.ctx)

\* the simultaneous-connect upgrade of an addrDial that has not been dialed
upgradeCtx(ad, req) == WithSimultaneousConnect(ad.ctx)

\* the second loop of addNewRequest, from the i-th ranked address on;
\* st is the worker together with the pendRequest under construction
RECURSIVE addNewRequestLoop(_, _, _, _)
addNewRequestLoop(st, req, ranking, i) ==
  IF i > Len(ranking) THEN st
  ELSE
    LET adelay == ranking[i]
        a == adelay.Addr
        w == st.w
        pr == st.pr
    IN  IF a \notin DOMAIN w.trackedDials
        THEN addNewRequestLoop(
               [st EXCEPT !.w.trackedDials = track(@, a, newAddrDial(req)),
                          !.w.dq = dqAdd(@, adelay),
                          !.w.createdBy[a] = req.id],
               req, ranking, i + 1)
        ELSE
          LET ad == w.trackedDials[a]
          IN  IF ad.err # NoErr
              THEN addNewRequestLoop(
                     [st EXCEPT !.pr.err = recordErr(@, a, ad.err),
                                !.pr.addrs = @ \ {a}],
                     req, ranking, i + 1)
              ELSE IF ~ad.dialed /\ req.ctx.sim /\ ~ad.ctx.sim
              THEN addNewRequestLoop(
                     [st EXCEPT !.w.trackedDials[a].ctx = upgradeCtx(ad, req),
                                !.w.dq = dqAdd(@, adelay)],
                     req, ranking, i + 1)
              ELSE addNewRequestLoop(st, req, ranking, i + 1)

addNewRequest(w, req, ranking, addrErrs) ==
  LET pr0 == [req |-> req, err |-> addrErrs,
              addrs |-> {ranking[i].Addr : i \in 1..Len(ranking)}]
      st == addNewRequestLoop([w |-> w, pr |-> pr0], req, ranking, 1)
  IN  IF st.pr.addrs = {}
      THEN Send(st.w, req.id, dialResponse(NoConn, ErrAllDialsFailed, st.pr.err, "addNewRequest"))
      ELSE [st.w EXCEPT !.pendingRequests = @ \cup {st.pr}]

\* --------------------------------------------------- handleSuccess, handleError

\* res.Conn.Close()
closeConn(w, c) == [w EXCEPT !.closedConns = @ \cup {c}]

\* only one of the requests that wait for address a
waitersOne(w, a) ==
  LET hit == {pr \in w.pendingRequests : a \in pr.addrs}
  IN  IF hit = {} THEN {} ELSE {CHOOSE pr \in hit : TRUE}

\* the requests handleSuccess completes with the connection of address a
waiters(w, a) == {pr \in w.pendingRequests : a \in pr.addrs}

\* the orders in which a range over the map w.pendingRequests may visit the requests
Orders == {o \in [1..MaxReqs -> ReqIds] : \A i, j \in 1..MaxReqs : o[i] = o[j] => i = j}

\* the requests among hit, in the order the range visits them
visited(order, hit) == LET isHit(r) == \E pr \in hit : pr.req.id = r
                       IN  SelectSeq(order, isHit)

\* handleSuccess without delete(w.pendingRequests, pr)
handleSuccessKeepsPending(w, a, c, peerOk, addOk, probe, order) ==
  IF ~peerOk THEN dispatchError(closeConn(w, c), a, "ErrPeerMismatch", probe)
  ELSE IF ~addOk THEN dispatchError(closeConn(w, c), a, "ErrAddConn", probe)
  ELSE
    LET hit == waiters(w, a)
    IN  [w EXCEPT
          !.swarmConns = @ \cup {c},
          !.trackedDials[a].conn = c,
          !.resps = [r \in DOMAIN @ |->
                       IF \E pr \in hit : pr.req.id = r
                       THEN Append(@[r], dialResponse(c, NoErr, {}, "handleSuccess"))
                       ELSE @[r]],
          !.written = visited(order, hit),
          !.connected = TRUE,
          !.connectedAt = IF w.connected THEN @ ELSE now]

handleSuccess(w, a, c, peerOk, addOk, probe, order) ==
  IF ~peerOk THEN dispatchError(closeConn(w, c), a, "ErrPeerMismatch", probe)
  ELSE IF ~addOk THEN dispatchError(closeConn(w, c), a, "ErrAddConn", probe)
  ELSE
    LET hit == waiters(w, a)
    IN  [w EXCEPT
          !.swarmConns = @ \cup {c},
          !.trackedDials[a].conn = c,
          !.pendingRequests = @ \ hit,
          !.resps = [r \in DOMAIN @ |->
                       IF \E pr \in hit : pr.req.id = r
                       THEN Append(@[r], dialResponse(c, NoErr, {}, "handleSuccess"))
                       ELSE @[r]],
          !.written = visited(order, hit),
          !.connected = TRUE,
          !.connectedAt = IF w.connected THEN @ ELSE now]

\* backf.AddBackoff acts on the swarm's backoff table only
handleError(w, a, err, probe) == dispatchError(w, a, err, probe)

\* ------------------------------------------------------------ the timer's batch

\* the dial is not marked
markDialedNot(ad) == ad

\* ad.dialed = true
markDialed(ad) == [ad EXCEPT !.dialed = TRUE]

\* case <-dialTimer.Ch(): the dials of the batch from its i-th entry on;
\* outcome[a] is what dialNextAddr returns for address a
RECURSIVE dialBatch(_, _, _, _, _)
dialBatch(w, batch, i, outcome, probe) ==
  IF i > Len(batch) THEN w
  ELSE
    LET a == batch[i].Addr
    IN  IF a \notin DOMAIN w.trackedDials
        THEN dialBatch(w, batch, i + 1, outcome, probe)
        ELSE
          LET w1 == [w EXCEPT !.trackedDials[a] = markDialed(@),
                              !.dialCalls[a] = @ + 1]
              w2 == IF outcome[a] # NoErr
                    THEN dispatchError(w1, a, outcome[a], probe)
                    ELSE [w1 EXCEPT
                           !.dials = @ \cup {[id |-> w1.totalDials + 1, addr |-> a,
                                              ctx |-> w1.trackedDials[a].ctx,
                                              stage |-> "new"]},
                           !.dialsInFlight = @ + 1,
                           !.totalDials = @ + 1]
          IN  dialBatch(w2, batch, i + 1, outcome, probe)

\* -------------------------------------------------------------- the loop's inputs

\* the swarm's ranker gives every address a delay of its own
rankerDelay == [a \in Addrs |-> (a - 1) % (MaxDelay + 1)]

\* the ranked addresses of a request: NoDelayDialRanker for a simultaneous
\* connect, otherwise the swarm's ranker, whose delays are f; ordered by delay
RECURSIVE ranked(_, _)
ranked(S, f) ==
  IF S = {} THEN <<>>
  ELSE LET a == CHOOSE x \in S :
                  \A y \in S : f[x] < f[y] \/ (f[x] = f[y] /\ x <= y)
       IN  <<[Addr |-> a, Delay |-> f[a]]>> \o ranked(S \ {a}, f)

rankAddrs(S, f, isSimConnect) ==
  IF isSimConnect THEN ranked(S, [a \in S |-> 0]) ELSE ranked(S, f)

\* the request the loop reads next
nextRequest(sim) == [id |-> nextReq, ctx |-> [id |-> nextReq, sim |-> sim]]

\* addrErrs of addrsForDial: the addresses of the peer that are not dialable
AddrErrs(S) == {<<a, "ErrPreflight">> : a \in Addrs \ S}

Probes == [{pr.req.id : pr \in pendingRequests} -> {NoConn} \cup Acceptable]

\* ======================================================================
\* The UDP mux (package udpmux)
\* ======================================================================

\* ------------------------------------------------------------------ bounds
NumV4 == 2
NumV6 == 1
MaxFlows == 2
MaxName == 2
NumClosers == 2

Closers == 1..NumClosers

\* remote IPs: the first NumV4 are IPv4, the others IPv6
IPs == 1..(NumV4 + NumV6)

\* a.IP.To4() == nil
To4IsNil(ip) == ip > NumV4

\* a net.Addr: a *net.UDPAddr, another implementation of net.Addr, or nil
UDPAddr(ip) == [type |-> "udp", ip |-> ip]
OtherAddr == [type |-> "other", ip |-> 0]
NilAddr == [type |-> "nil", ip |-> 0]
UDPAddrs == {UDPAddr(ip) : ip \in IPs}

\* addr.String(), the key of addrMap
addrString(addr) == <<"udp", addr.ip>>

\* the bytes of a STUN USERNAME attribute, and the ufrags the callers of the API use
NameChars == {":", "a"}
Usernames == UNION {[1..n -> NameChars] : n \in 0..MaxName}
ApiUfrags == {<<>>, <<"a">>}

NoFlow == 0
ErrClosedPipe == "io.ErrClosedPipe"
ErrAddrType == "unexpected address type"
\* a call that did not return: a run-time panic (nil pointer dereference)
Panic == "panic"

\* ------------------------------------------------------------ udpMuxStorage

emptyMap == [x \in {} |-> NoFlow]
mapPut(m, k, v) == [x \in DOMAIN m \cup {k} |-> IF x = k THEN v ELSE m[x]]
mapDelete(m, k) == [x \in DOMAIN m \ {k} |-> m[x]]

ufragConnKey(ufrag, isIPv6) == [ufrag |-> ufrag, isIPv6 |-> isIPv6]

newUDPMuxStorage == [ufragMap |-> emptyMap, addrMap |-> emptyMap, conns |-> <<>>]

\* newMuxedConnection(mux, close hook, addr): the connection remembers the
\* ufrag of its close hook and the address it was made with
newMuxedConnection(ufrag, addr) == [ufrag |-> ufrag, addr |-> addr, closed |-> FALSE]

\* conn.Address()
Address(s, conn) == s.conns[conn].addr

\* one round of the loop of RemoveConnByUfrag; calling String() on a nil
\* net.Addr panics, after the delete from ufragMap
\* the loop body without delete(s.addrMap, ...)
removeKeyKeepsAddr(r, ufrag, isIPv6) ==
  LET key == ufragConnKey(ufrag, isIPv6)
  IN  IF key \notin DOMAIN r.s.ufragMap THEN r
      ELSE [r EXCEPT !.s.ufragMap = mapDelete(@, key)]

removeKey(r, ufrag, isIPv6) ==
  LET key == ufragConnKey(ufrag, isIPv6)
      s == r.s
  IN  IF r.panic \/ key \notin DOMAIN s.ufragMap THEN r
      ELSE LET conn == s.ufragMap[key]
               s1 == [s EXCEPT !.ufragMap = mapDelete(@, key)]
           IN  IF Address(s, conn) = NilAddr
               THEN [s |-> s1, panic |-> TRUE]
               ELSE [s |-> [s1 EXCEPT !.addrMap = mapDelete(@, addrString(Address(s, conn)))],
                     panic |-> FALSE]

\* RemoveConnByUfrag that looks at the IPv4 key only
storageRemoveOnlyV4(s, ufrag) == removeKey([s |-> s, panic |-> FALSE], ufrag, FALSE)

storageRemoveConnByUfrag(s, ufrag) ==
  removeKey(removeKey([s |-> s, panic |-> FALSE], ufrag, TRUE), ufrag, FALSE)

\* the map is updated before addr.String() is evaluated: a nil addr panics
\* with the connection already in ufragMap
storageGetOrCreateConn(s, ufrag, isIPv6, addr) ==
  LET key == ufragConnKey(ufrag, isIPv6)
  IN  IF key \in DOMAIN s.ufragMap
      THEN [s |-> s, created |-> FALSE, conn |-> s.ufragMap[key], panic |-> FALSE]
      ELSE LET conn == Len(s.conns) + 1
               s1 == [s EXCEPT !.conns = Append(@, newMuxedConnection(ufrag, addr)),
                               !.ufragMap = mapPut(@, key, conn)]
           IN  IF addr = NilAddr
               THEN [s |-> s1, created |-> FALSE, conn |-> NoFlow, panic |-> TRUE]
               ELSE [s |-> [s1 EXCEPT !.addrMap = mapPut(@, addrString(addr), conn)],
                     created |-> TRUE, conn |-> conn, panic |-> FALSE]

storageGetConnByAddr(s, addr) ==
  IF addrString(addr) \in DOMAIN s.addrMap
  THEN [conn |-> s.addrMap[addrString(addr)], ok |-> TRUE]
  ELSE [conn |-> NoFlow, ok |-> FALSE]

\* muxedConnection.Close: runs the close hook, s.RemoveConnByUfrag(ufrag)
connClose(s, conn) ==
  storageRemoveConnByUfrag([s EXCEPT !.conns[conn].closed = TRUE], s.conns[conn].ufrag)

\* ----------------------------------------------------- ufragFromSTUNMessage

\* the place of the last colon
bytesLastIndex(attr) ==
  LET at == {i \in 1..Len(attr) : attr[i] = ":"}
  IN  IF at = {} THEN -1 ELSE (CHOOSE i \in at : \A j \in at : j <= i) - 1

\* bytes.Index(attr, ":"): the place of the first colon, -1 if there is none
\* (places count from 0)
bytesIndex(attr) ==
  LET at == {i \in 1..Len(attr) : attr[i] = ":"}
  IN  IF at = {} THEN -1 ELSE Min(at) - 1

\* hasName is FALSE when the message has no USERNAME attribute
ufragFromSTUNMessage(hasName, attr) ==
  IF ~hasName THEN [ufrag |-> <<>>, err |-> "no USERNAME"]
  ELSE LET index == bytesIndex(attr)
       IN  IF index = -1
           THEN [ufrag |-> <<>>, err |-> "invalid STUN username attribute"]
           ELSE [ufrag |-> SubSeq(attr, index + 2, Len(attr)), err |-> NoErr]

\* ------------------------------------------------------------------ NewUDPMux

NewUDPMux ==
  /\ storage = newUDPMuxStorage
  /\ ctxDone = FALSE
  /\ socketClosed = FALSE
  /\ rl = [pc |-> "notStarted", addr |-> NilAddr, attr |-> <<>>, conn |-> NoFlow]
  /\ closers = [c \in Closers |-> "idle"]
  /\ getter = [pc |-> "idle", ufrag |-> <<>>, addr |-> NilAddr]
  /\ last = [op |-> "none", ufrag |-> <<>>, addr |-> NilAddr, conn |-> NoFlow, err |-> NoErr,
             created |-> FALSE, via |-> "none", processed |-> FALSE]
  /\ cbCalls = <<>>

\* ------------------------------------------------------------------------ Init

Init ==
  /\ pc = "loop"
  /\ now = startTime
  /\ nextReq = 1
  /\ cancelled = {}
  /\ pendingRequests = {}
  /\ trackedDials = <<>>
  /\ dq = <<>>
  /\ connected = FALSE
  /\ dialsInFlight = 0
  /\ totalDials = 0
  /\ timerRunning = TRUE
  /\ timerAt = NeverFires
  /\ dials = {}
  /\ resps = [r \in ReqIds |-> <<>>]
  /\ swarmConns = {}
  /\ closedConns = {}
  /\ dialCalls = [a \in Addrs |-> 0]
  /\ createdBy = [a \in Addrs |-> 0]
  /\ connectedAt = NeverFires
  /\ written = <<>>
  /\ reqAddrs = [r \in ReqIds |-> {}]
  /\ qlast = [op |-> "none", adelay |-> [Addr |-> NoAddr, Delay |-> 0],
              q |-> <<>>, batch |-> <<>>]
  /\ NewUDPMux

\* --------------------------------------------------------- case req := <-w.reqch

\* bestAcceptableConnToPeer returns a connection or an error: reply at once
LoopReqBestConn ==
  /\ pc = "loop"
  /\ nextReq <= MaxReqs
  /\ \/ \E c \in Acceptable :
          Apply(Send(W, nextReq, dialResponse(c, NoErr, {}, "loop")))
     \/ Apply(Send(W, nextReq, dialResponse(NoConn, "ErrProbe", {}, "loop")))
  /\ nextReq' = nextReq + 1
  /\ UNCHANGED <<pc, now, reqAddrs>>

\* addrsForDial fails: reply with a DialError of that cause
LoopReqAddrsErr ==
  /\ pc = "loop"
  /\ nextReq <= MaxReqs
  /\ \E S \in SUBSET Addrs :
       Apply(Send(W, nextReq, dialResponse(NoConn, "ErrAddrs", AddrErrs(S), "loop")))
  /\ nextReq' = nextReq + 1
  /\ UNCHANGED <<pc, now, reqAddrs>>

\* an address of the request is tracked with a connection: reply with it
LoopReqTrackedConn ==
  /\ pc = "loop"
  /\ nextReq <= MaxReqs
  /\ \E S \in SUBSET Addrs \ {{}} :
       \E a \in S \cap DOMAIN trackedDials :
         /\ trackedDials[a].conn # NoConn
         /\ Apply(Send(W, nextReq, dialResponse(trackedDials[a].conn, NoErr, {}, "loop")))
  /\ nextReq' = nextReq + 1
  /\ UNCHANGED <<pc, now, reqAddrs>>

\* otherwise: addNewRequest, then scheduleNextDial
LoopReqAddNew ==
  /\ pc = "loop"
  /\ nextReq <= MaxReqs
  /\ \E sim \in BOOLEAN, S \in SUBSET Addrs \ {{}} :
       /\ \A a \in S \cap DOMAIN trackedDials : trackedDials[a].conn = NoConn
       /\ LET ranking == rankAddrs(S, rankerDelay, sim)
          IN  Apply(scheduleNextDial(
                      addNewRequest(W, nextRequest(sim), ranking, AddrErrs(S))))
       /\ reqAddrs' = [reqAddrs EXCEPT ![nextReq] = S]
  /\ nextReq' = nextReq + 1
  /\ UNCHANGED <<pc, now>>

\* ------------------------------------------------------- case <-dialTimer.Ch()

LoopTimer ==
  /\ pc = "loop"
  /\ timerRunning
  /\ now >= timerAt
  /\ LET nb == dqNextBatch(dq)
         addrs == {nb.batch[i].Addr : i \in 1..Len(nb.batch)}
     IN  \E outcome \in [addrs -> {NoErr, ErrDialBackoff}], probe \in Probes :
           Apply(scheduleNextDial(
                   dialBatch([W EXCEPT !.dq = nb.rest, !.timerRunning = FALSE],
                             nb.batch, 1, outcome, probe)))
  /\ UNCHANGED <<pc, now, nextReq, reqAddrs>>

\* --------------------------------------------------------- case res := <-w.resch

\* a result for an address that is not tracked
untrackedResult(w, c) ==
  LET w1 == IF c # NoConn THEN closeConn(w, c) ELSE w
  IN  [w1 EXCEPT !.dialsInFlight = @ - 1]

\* a dial sends its DialStarted
LoopDialStarted ==
  /\ pc = "loop"
  /\ \E d \in dials :
       /\ d.stage = "new"
       /\ LET w1 == [W EXCEPT !.dials = (@ \ {d}) \cup {[d EXCEPT !.stage = "started"]}]
          IN  IF d.addr \notin DOMAIN trackedDials
              THEN Apply(untrackedResult(w1, NoConn))
              ELSE Apply(scheduleNextDial(w1))
  /\ UNCHANGED <<pc, now, nextReq, reqAddrs>>

\* the results a dial may finish with: a connection (its number is the dial's) or an error
Finishes(d) ==
  {[Conn |-> d.id, Err |-> NoErr], [Conn |-> NoConn, Err |-> "ErrDial"]}
    \cup (IF Cancelled(d.ctx) THEN {[Conn |-> NoConn, Err |-> "Canceled"]} ELSE {})

\* the result case without w.dialsInFlight--
finishedKeepsCount(w, a, res, peerOk, addOk, probe, order) ==
  scheduleNextDial(IF res.Conn # NoConn
                   THEN handleSuccess(w, a, res.Conn, peerOk, addOk, probe, order)
                   ELSE handleError(w, a, res.Err, probe))

\* scheduleNextDial runs before the result is handled
finishedScheduleFirst(w, a, res, peerOk, addOk, probe, order) ==
  LET w1 == scheduleNextDial([w EXCEPT !.dialsInFlight = @ - 1])
  IN  IF res.Conn # NoConn
      THEN handleSuccess(w1, a, res.Conn, peerOk, addOk, probe, order)
      ELSE handleError(w1, a, res.Err, probe)

\* the rest of the loop's result case, after the DialStarted check
finished(w, a, res, peerOk, addOk, probe, order) ==
  LET w1 == [w EXCEPT !.dialsInFlight = @ - 1]
  IN  scheduleNextDial(IF res.Conn # NoConn
                       THEN handleSuccess(w1, a, res.Conn, peerOk, addOk, probe, order)
                       ELSE handleError(w1, a, res.Err, probe))

\* a dial sends its terminal result
LoopDialFinished ==
  /\ pc = "loop"
  /\ \E d \in dials :
       /\ d.stage = "started"
       /\ \E res \in Finishes(d), probe \in Probes :
          \E peerOk, addOk \in (IF res.Conn # NoConn THEN BOOLEAN ELSE {TRUE}) :
          \E order \in Orders :
            LET w1 == [W EXCEPT !.dials = @ \ {d}]
            IN  IF d.addr \notin DOMAIN trackedDials
                THEN Apply(untrackedResult(w1, res.Conn))
                ELSE Apply(finished(w1, d.addr, res, peerOk, addOk, probe, order))
  /\ UNCHANGED <<pc, now, nextReq, reqAddrs>>

\* ------------------------------------------------------------ close and cleanup

\* reqch is closed and the loop reads !ok: return, the deferred cleanup runs
CloseReqch ==
  /\ pc = "loop"
  /\ pc' = "cleanup"
  /\ UNCHANGED <<now, nextReq, cancelled, reqAddrs, wvars, mvars, qlast>>

\* one iteration of cleanup's loop: any result counts
cleanupStep(w, d, c) ==
  LET w1 == IF c # NoConn THEN closeConn(w, c) ELSE w
  IN  [w1 EXCEPT !.dialsInFlight = @ - 1,
                 !.dials = IF d.stage = "new"
                           THEN (@ \ {d}) \cup {[d EXCEPT !.stage = "started"]}
                           ELSE @ \ {d}]

CleanupRecv ==
  /\ pc = "cleanup"
  /\ dialsInFlight > 0
  /\ \E d \in dials :
       \E c \in (IF d.stage = "new" THEN {NoConn} ELSE {r.Conn : r \in Finishes(d)}) :
         Apply(cleanupStep(W, d, c))
  /\ UNCHANGED <<pc, now, nextReq, reqAddrs>>

CleanupDone ==
  /\ pc = "cleanup"
  /\ dialsInFlight <= 0
  /\ pc' = "done"
  /\ UNCHANGED <<now, nextReq, cancelled, reqAddrs, wvars, mvars, qlast>>

\* ------------------------------------------------------------- the environment

\* a caller cancels the ctx of a request it has sent
Cancel ==
  /\ pc = "loop"
  /\ \E r \in liveCtx(W) :
       /\ r \notin cancelled
       /\ cancelled' = cancelled \cup {r}
  /\ UNCHANGED <<pc, now, nextReq, reqAddrs, wvars, mvars, qlast>>

Tick ==
  /\ pc = "loop"
  /\ now < MaxTime
  /\ now' = now + 1
  /\ UNCHANGED <<pc, nextReq, cancelled, reqAddrs, wvars, mvars, qlast>>

Next ==
  \/ LoopReqBestConn
  \/ LoopReqAddrsErr
  \/ LoopReqTrackedConn
  \/ LoopReqAddNew
  \/ LoopTimer
  \/ LoopDialStarted
  \/ LoopDialFinished
  \/ CloseReqch
  \/ CleanupRecv
  \/ CleanupDone
  \/ Cancel
  \/ Tick

Spec == Init /\ [][Next]_vars

\* the clock advances, a due timer is served by the loop's select, and every
\* dial that was triggered delivers its results while the loop runs
FairSpec == Spec /\ WF_vars(Tick \/ LoopTimer \/ LoopDialStarted \/ LoopDialFinished)

\* ======================================================================
\* The UDP mux: its goroutines
\* ======================================================================

isIPv6Of(addr) == addr.type = "udp" /\ To4IsNil(addr.ip)

\* the bound of the model on the connections made
mayCreate(s, ufrag, isIPv6) ==
  ufragConnKey(ufrag, isIPv6) \in DOMAIN s.ufragMap \/ Len(s.conns) < MaxFlows

\* what a call of GetConn returned
returned(ufrag, addr, conn, err, created) ==
  [op |-> "GetConn", ufrag |-> ufrag, addr |-> addr, conn |-> conn, err |-> err,
   created |-> created, via |-> "none", processed |-> FALSE]

\* what processPacket did with the packet from addr, and what it returned
packet(ufrag, addr, conn, via, processed) ==
  [op |-> "processPacket", ufrag |-> ufrag, addr |-> addr, conn |-> conn, err |-> NoErr,
   created |-> via = "created", via |-> via, processed |-> processed]

dropped(addr) == packet(<<>>, addr, NoFlow, "drop", FALSE)

\* ------------------------------------------------------------------- GetConn

\* GetConn up to the select of getOrCreateConn
GetConnStartOf(ufrags, addrs) ==
  /\ getter.pc = "idle"
  /\ \E ufrag \in ufrags, addr \in addrs :
       IF addr.type = "other"
       THEN last' = returned(ufrag, addr, NoFlow, ErrAddrType, FALSE) /\ UNCHANGED getter
       ELSE IF ctxDone
       THEN last' = returned(ufrag, addr, NoFlow, ErrClosedPipe, FALSE) /\ UNCHANGED getter
       ELSE getter' = [pc |-> "checked", ufrag |-> ufrag, addr |-> addr] /\ UNCHANGED last
  /\ UNCHANGED <<storage, ctxDone, socketClosed, rl, closers, cbCalls, wkvars>>

GetConnStart == GetConnStartOf(ApiUfrags, UDPAddrs \cup {NilAddr, OtherAddr})

\* the default case of getOrCreateConn: mux.storage.GetOrCreateConn
GetConnStore ==
  /\ getter.pc = "checked"
  /\ mayCreate(storage, getter.ufrag, isIPv6Of(getter.addr))
  /\ LET r == storageGetOrCreateConn(storage, getter.ufrag, isIPv6Of(getter.addr), getter.addr)
     IN  /\ storage' = r.s
         /\ last' = returned(getter.ufrag, getter.addr, r.conn,
                             IF r.panic THEN Panic ELSE NoErr, r.created)
  /\ getter' = [pc |-> "idle", ufrag |-> <<>>, addr |-> NilAddr]
  /\ UNCHANGED <<ctxDone, socketClosed, rl, closers, cbCalls, wkvars>>

\* --------------------------------------------------------- RemoveConnByUfrag

RemoveConnByUfrag ==
  /\ \E ufrag \in ApiUfrags :
       LET r == IF ufrag # <<>> THEN storageRemoveConnByUfrag(storage, ufrag)
                ELSE [s |-> storage, panic |-> FALSE]
       IN  /\ storage' = r.s
           /\ last' = [op |-> "RemoveConnByUfrag", ufrag |-> ufrag, addr |-> NilAddr,
                       conn |-> NoFlow, err |-> IF r.panic THEN Panic ELSE NoErr,
                       created |-> FALSE, via |-> "none", processed |-> FALSE]
  /\ UNCHANGED <<ctxDone, socketClosed, rl, closers, getter, cbCalls, wkvars>>

\* --------------------------------------------------------------------- Close

\* the select of Close: return nil if the ctx is done
CloseSelect ==
  /\ \E c \in Closers :
       /\ closers[c] = "idle"
       /\ closers' = [closers EXCEPT ![c] = IF ctxDone THEN "returnedAtSelect" ELSE "cancel"]
  /\ UNCHANGED <<storage, ctxDone, socketClosed, rl, getter, last, cbCalls, wkvars>>

\* mux.cancel(); mux.socket.Close()
CloseCancel ==
  /\ \E c \in Closers :
       /\ closers[c] = "cancel"
       /\ closers' = [closers EXCEPT ![c] = "wait"]
  /\ ctxDone' = TRUE
  /\ socketClosed' = TRUE
  /\ UNCHANGED <<storage, rl, getter, last, cbCalls, wkvars>>

\* the goroutine of Start is not running: wg.Wait() does not block
loopNotRunning == rl.pc \in {"notStarted", "exited", "panicked"}

\* mux.wg.Wait(); return nil
CloseWait ==
  /\ \E c \in Closers :
       /\ closers[c] = "wait"
       /\ loopNotRunning
       /\ closers' = [closers EXCEPT ![c] = "returnedAfterWait"]
  /\ UNCHANGED <<storage, ctxDone, socketClosed, rl, getter, last, cbCalls, wkvars>>

\* what Close returned to caller c
closeResult(c) ==
  CASE closers[c] = "returnedAtSelect" -> NoErr
    [] closers[c] = "returnedAfterWait" -> NoErr
    [] OTHER -> "running"

\* ------------------------------------------------------------ Start, readLoop

\* Start is called once, before any Close
Start ==
  /\ rl.pc = "notStarted"
  /\ \A c \in Closers : closers[c] = "idle"
  /\ rl' = [rl EXCEPT !.pc = "select"]
  /\ UNCHANGED <<storage, ctxDone, socketClosed, closers, getter, last, cbCalls, wkvars>>

\* the select at the top of readLoop
ReadLoopSelect ==
  /\ rl.pc = "select"
  /\ rl' = [rl EXCEPT !.pc = IF ctxDone THEN "exited" ELSE "read"]
  /\ UNCHANGED <<storage, ctxDone, socketClosed, closers, getter, last, cbCalls, wkvars>>

\* mux.socket.ReadFrom fails (always so once the socket is closed)
ReadLoopReadErr ==
  /\ rl.pc = "read"
  /\ rl' = [rl EXCEPT !.pc = "exited"]
  /\ UNCHANGED <<storage, ctxDone, socketClosed, closers, getter, last, cbCalls, wkvars>>

\* the datagrams: kind is what the stun package says of the bytes (not a STUN
\* message, a STUN message that does not decode or is no binding request, a
\* binding request), with the USERNAME attribute of a binding request
Packets ==
  {[kind |-> k, hasName |-> FALSE, attr |-> <<>>] : k \in {"data", "stunOther", "binding"}}
    \cup {[kind |-> "binding", hasName |-> TRUE, attr |-> n] : n \in Usernames}

loopIdle == [pc |-> "select", addr |-> NilAddr, attr |-> <<>>, conn |-> NoFlow]

\* the ufrag of the binding request that processPacket is working on
rlUfrag == ufragFromSTUNMessage(TRUE, rl.attr).ufrag

\* a packet is read; processPacket up to the call of GetOrCreateConn
ReadLoopPacketOf(addrs, pkts) ==
  /\ rl.pc = "read"
  /\ ~socketClosed
  /\ \E addr \in addrs, pkt \in pkts, pushOk \in BOOLEAN :
       LET byAddr == storageGetConnByAddr(storage, addr)
           u == ufragFromSTUNMessage(pkt.hasName, pkt.attr)
       IN  IF addr.type # "udp"
           THEN last' = dropped(addr) /\ rl' = loopIdle
           ELSE IF byAddr.ok
           THEN /\ last' = packet(<<>>, addr, byAddr.conn, "addr", pushOk)
                /\ rl' = loopIdle
           ELSE IF pkt.kind # "binding" \/ u.err # NoErr
           THEN last' = dropped(addr) /\ rl' = loopIdle
           ELSE /\ rl' = [pc |-> "create", addr |-> addr, attr |-> pkt.attr, conn |-> NoFlow]
                /\ UNCHANGED last
  /\ UNCHANGED <<storage, ctxDone, socketClosed, closers, getter, cbCalls, wkvars>>

ReadLoopPacket == ReadLoopPacketOf(UDPAddrs \cup {OtherAddr}, Packets)

\* processPacket: mux.storage.GetOrCreateConn, and the Push to a flow that existed
ReadLoopCreate ==
  /\ rl.pc = "create"
  /\ mayCreate(storage, rlUfrag, isIPv6Of(rl.addr))
  /\ LET r == storageGetOrCreateConn(storage, rlUfrag, isIPv6Of(rl.addr), rl.addr)
     IN  /\ storage' = r.s
         /\ IF r.created
            THEN /\ rl' = [rl EXCEPT !.pc = "callback", !.conn = r.conn]
                 /\ UNCHANGED last
            ELSE /\ rl' = loopIdle
                 /\ \E pushOk \in BOOLEAN :
                      last' = packet(rlUfrag, rl.addr, r.conn, "ufrag", pushOk)
  /\ UNCHANGED <<ctxDone, socketClosed, closers, getter, cbCalls, wkvars>>

\* processPacket: unknownUfragCallback for the flow just created, then
\* conn.Close() or conn.Push(buf)
ReadLoopCallback ==
  /\ rl.pc = "callback"
  /\ cbCalls' = Append(cbCalls, [ufrag |-> rlUfrag, addr |-> rl.addr, conn |-> rl.conn])
  /\ \E cbOk, pushOk \in BOOLEAN :
       IF cbOk
       THEN /\ last' = packet(rlUfrag, rl.addr, rl.conn, "created", pushOk)
            /\ rl' = loopIdle
            /\ UNCHANGED storage
       ELSE LET r == connClose(storage, rl.conn)
            IN  /\ storage' = r.s
                /\ last' = packet(rlUfrag, rl.addr, NoFlow, "callbackErr", FALSE)
                /\ rl' = [loopIdle EXCEPT !.pc = IF r.panic THEN "panicked" ELSE "select"]
  /\ UNCHANGED <<ctxDone, socketClosed, closers, getter, wkvars>>

\* the flow table and the read loop, on a mux that is not closed
MuxNext ==
  \/ GetConnStart
  \/ GetConnStore
  \/ RemoveConnByUfrag
  \/ Start
  \/ ReadLoopSelect
  \/ ReadLoopReadErr
  \/ ReadLoopPacket
  \/ ReadLoopCreate
  \/ ReadLoopCallback

MuxSpec == Init /\ [][MuxNext]_vars

\* ------------------------------------------------- the mux with callers of Close

\* for Close only the place of the read loop and of GetConn matters: one
\* remote, one ufrag
CloseGetConnStart == GetConnStartOf({<<"a">>}, {UDPAddr(1), NilAddr})

CloseReadPacket ==
  ReadLoopPacketOf({UDPAddr(1)},
                   {pkt \in Packets : pkt.kind = "data" \/ pkt.attr = <<":", "a">>})

MuxCloseNext ==
  \/ CloseSelect
  \/ CloseCancel
  \/ CloseWait
  \/ CloseGetConnStart
  \/ GetConnStore
  \/ Start
  \/ ReadLoopSelect
  \/ ReadLoopReadErr
  \/ CloseReadPacket
  \/ ReadLoopCreate
  \/ ReadLoopCallback

MuxCloseSpec == Init /\ [][MuxCloseNext]_vars

\* ======================================================================
\* Properties
\* ======================================================================

\* the requests that have been read from reqch
Read == 1..(nextReq - 1)

Pending(r) == \E pr \in pendingRequests : pr.req.id = r

Answered(r) == Len(resps[r]) > 0

\* the entries of queue q for address a
entriesOf(q, a) == {i \in 1..Len(q) : q[i].Addr = a}

\* the response written to request r
Resp(r) == resps[r][1]

\* the errors dispatchError records
DialErrs == {"ErrDial", "Canceled", "ErrPeerMismatch", "ErrAddConn", ErrDialBackoff}

\* C1: no response channel is written more than once: a request that has been
\* answered (by the loop at ingestion, by addNewRequest, handleSuccess or
\* dispatchError) is not in pendingRequests, a request that is pending has
\* not been answered, and no request has two responses.
C1_AtMostOneResponse ==
  \A r \in ReqIds :
    /\ Len(resps[r]) <= 1
    /\ Answered(r) => r \in Read /\ ~Pending(r)
    /\ Pending(r) => r \in Read

\* C1 witness: both kinds of answer have been written (a connection from
\* handleSuccess, an error from dispatchError), and a dial was made and has
\* delivered all its results after a request was answered.
C1_Witness ==
  /\ \E r \in Read : Answered(r) /\ resps[r][1].by = "handleSuccess"
  /\ \E r \in Read : Answered(r) /\ resps[r][1].by = "dispatchError"
  /\ totalDials >= 2
  /\ dials = {}

\* C2 (as claimed): every request read from reqch gets a response, also when
\* it is pending at the close of reqch: when the worker has returned, no
\* request that it read is without a response.
C2_AnsweredAtReturn ==
  pc = "done" => \A r \in Read : Answered(r)

\* C2, as far as the code goes: every request read from reqch gets a response
\* if reqch stays open. A request that was read is pending or answered, and
\* again and again no request is pending or reqch has been closed; after the
\* close of reqch no response is written, so a request pending at the close
\* is never answered.
C2_AnsweredWhileOpen ==
  /\ [](\A r \in Read : Pending(r) \/ Answered(r))
  /\ []<>(pc # "loop" \/ pendingRequests = {})
  /\ [][pc # "loop" => resps' = resps]_vars

\* C2 witness: every request the model allows was read, some were pending and
\* got their answer from a dial result, and reqch is still open.
C2_Witness ==
  /\ pc = "loop"
  /\ nextReq > MaxReqs
  /\ pendingRequests = {}
  /\ \A r \in Read : Answered(r)
  /\ \E r \in Read : Resp(r).by = "dispatchError" /\ Resp(r).conn = NoConn
  /\ \E r \in Read : Resp(r).by = "handleSuccess"

\* C9 (as claimed): the worker returns only after every dial in flight has
\* delivered its terminal result, whose connection is closed by cleanup.
C9_DrainedAtReturn ==
  pc = "done" => dials = {}

\* C3: when a dial to address a finishes with a connection that addConn
\* accepts (the step that sets the conn of a's addrDial), every request that is
\* pending and has a in its addrs is answered, in that step, with that
\* connection and is no longer pending.
C3_SuccessAnswersWaiters ==
  [][\A a \in DOMAIN trackedDials :
       (/\ trackedDials[a].conn = NoConn
        /\ a \in DOMAIN trackedDials'
        /\ trackedDials'[a].conn # NoConn)
       => /\ trackedDials'[a].conn \in swarmConns' \ swarmConns
          /\ \A pr \in pendingRequests :
               a \in pr.addrs =>
                 /\ resps'[pr.req.id] =
                      <<dialResponse(trackedDials'[a].conn, NoErr, {}, "handleSuccess")>>
                 /\ \A q \in pendingRequests' : q.req.id # pr.req.id]_vars

\* C3 witness: two requests were answered by handleSuccess with one connection.
C3_Witness ==
  \E r1, r2 \in Read :
    /\ r1 # r2
    /\ Answered(r1) /\ Answered(r2)
    /\ resps[r1][1].by = "handleSuccess" /\ resps[r2][1].by = "handleSuccess"
    /\ resps[r1][1].conn = resps[r2][1].conn
    /\ resps[r1][1].conn # NoConn

\* C4: at most one dial is in flight per address, and dialNextAddr is never
\* called for an address whose earlier dial has not delivered its terminal
\* result.
C4_OneDialPerAddr ==
  /\ [](\A d1, d2 \in dials : d1.addr = d2.addr => d1 = d2)
  /\ [][\A a \in Addrs :
          dialCalls'[a] # dialCalls[a] => \A d \in dials : d.addr # a]_vars

\* C4 witness: a request that did not create the addrDial of an address waits
\* for it while its dial is in flight.
C4_Witness ==
  \E pr \in pendingRequests : \E a \in pr.addrs :
    /\ createdBy[a] # pr.req.id
    /\ \E d \in dials : d.addr = a

\* C5: addNewRequest and dispatchError answer a request with an error only
\* when all its addresses have errored: the cause is then 'all dials failed'
\* and the error holds the recorded error of every address of the request; a
\* request with an address that has not errored stays pending, with the errors
\* of its other addresses.
C5_ErrorOnlyWhenExhausted ==
  /\ \A r \in ReqIds :
       (/\ Answered(r)
        /\ Resp(r).by \in {"addNewRequest", "dispatchError"}
        /\ Resp(r).conn = NoConn)
       => /\ Resp(r).cause = ErrAllDialsFailed
          /\ \A a \in reqAddrs[r] :
               \E e \in DialErrs :
                 /\ <<a, e>> \in Resp(r).errs
                 /\ e # ErrDialBackoff
                      => a \in DOMAIN trackedDials /\ trackedDials[a].err = e
  /\ \A pr \in pendingRequests :
       /\ pr.addrs # {}
       /\ pr.addrs \subseteq reqAddrs[pr.req.id]
       /\ \A a \in pr.addrs :
            a \in DOMAIN trackedDials /\ trackedDials[a].err = NoErr
       /\ \A a \in reqAddrs[pr.req.id] \ pr.addrs :
            \E e \in DialErrs : <<a, e>> \in pr.err

\* C5 witness: dispatchError has answered a request of two addresses with
\* the error, and addNewRequest has answered another one with it.
C5_Witness ==
  /\ \E r \in Read :
       /\ Answered(r) /\ Resp(r).by = "dispatchError" /\ Resp(r).conn = NoConn
       /\ Cardinality(reqAddrs[r]) = 2
  /\ \E r \in Read :
       Answered(r) /\ Resp(r).by = "addNewRequest"

\* error e of address a is recorded for a request in this step
NewErr(a, e) ==
  \/ \E q \in pendingRequests' :
       /\ <<a, e>> \in q.err
       /\ \A pr \in pendingRequests : pr.req.id = q.req.id => <<a, e>> \notin pr.err
  \/ \E r \in ReqIds :
       /\ Len(resps'[r]) > Len(resps[r])
       /\ <<a, e>> \in resps'[r][Len(resps'[r])].errs
       /\ \A pr \in pendingRequests : pr.req.id = r => <<a, e>> \notin pr.err

\* C6: an errored address is dialed again iff its error was the backoff
\* sentinel. An addrDial with a recorded error never changes again, is never
\* dialed again nor queued, and a later request naming it gets that error
\* recorded and does not wait for it; an error recorded for a request leaves
\* the address untracked if it is the backoff sentinel and tracked with that
\* error otherwise; an address that is not tracked gets a fresh addrDial and
\* a queue entry from the next request naming it.
C6_RedialOnlyAfterBackoff ==
  /\ [](\A a \in DOMAIN trackedDials : trackedDials[a].err # ErrDialBackoff)
  /\ [][\A a \in DOMAIN trackedDials :
          trackedDials[a].err # NoErr =>
            /\ a \in DOMAIN trackedDials'
            /\ trackedDials'[a] = trackedDials[a]
            /\ dialCalls'[a] = dialCalls[a]
            /\ entriesOf(dq', a) = {}
            /\ \A q \in pendingRequests' :
                 a \in reqAddrs'[q.req.id] /\ q.req.id = nextReq =>
                   a \notin q.addrs /\ <<a, trackedDials[a].err>> \in q.err]_vars
  /\ [][\A a \in Addrs, e \in DialErrs :
          NewErr(a, e) =>
            IF e = ErrDialBackoff
            THEN a \notin DOMAIN trackedDials'
            ELSE a \in DOMAIN trackedDials' /\ trackedDials'[a].err = e]_vars
  /\ [][\A a \in Addrs :
          a \notin DOMAIN trackedDials /\ a \in DOMAIN trackedDials' =>
            /\ trackedDials'[a] = newAddrDial([ctx |-> trackedDials'[a].ctx])
            /\ trackedDials'[a].ctx.id = nextReq
            /\ Cardinality(entriesOf(dq', a)) = 1]_vars

\* C6 witness: an address was dialed a second time (after a backoff), while
\* another address keeps its error and a later request, which did not create
\* it, holds that error and does not wait for it.
C6_Witness ==
  \E a, b \in Addrs :
    /\ dialCalls[a] = 2
    /\ dialCalls[b] = 1
    /\ b \in DOMAIN trackedDials
    /\ trackedDials[b].err # NoErr
    /\ \E pr \in pendingRequests :
         /\ createdBy[b] # pr.req.id
         /\ b \in reqAddrs[pr.req.id]
         /\ <<b, trackedDials[b].err>> \in pr.err
         /\ a \in pr.addrs

\* a simultaneous-connect request naming address a reaches addNewRequest in this step
SimRequestFor(a) ==
  /\ nextReq' = nextReq + 1
  /\ \E q \in pendingRequests' :
       q.req.id = nextReq /\ q.req.ctx.sim /\ a \in q.addrs

\* C7: a simultaneous-connect request for an address that is tracked, not
\* dialed and not simultaneous connect leaves exactly one queue entry for it,
\* at delay 0, with the timer due at once; the entry stays so until the
\* address is dialed, and a timer fire dials every entry of delay 0.
C7_SimConnectUpgrade ==
  /\ [][\A a \in DOMAIN trackedDials :
          (/\ ~trackedDials[a].dialed
           /\ ~trackedDials[a].ctx.sim
           /\ trackedDials[a].err = NoErr
           /\ SimRequestFor(a))
          => /\ trackedDials'[a].ctx.sim
             /\ Cardinality(entriesOf(dq', a)) = 1
             /\ \A i \in entriesOf(dq', a) : dq'[i].Delay = 0
             /\ timerRunning' /\ timerAt' <= now']_vars
  /\ [](\A a \in DOMAIN trackedDials :
          trackedDials[a].ctx.sim /\ ~trackedDials[a].dialed =>
            /\ Cardinality(entriesOf(dq, a)) = 1
            /\ \A i \in entriesOf(dq, a) : dq[i].Delay = 0
            /\ pc = "loop" => timerRunning /\ timerAt <= now)
  /\ [][Len(dq') < Len(dq) =>
          \A i \in 1..Len(dq) :
            dq[i].Delay = 0 =>
              /\ entriesOf(dq', dq[i].Addr) = {}
              /\ dialCalls'[dq[i].Addr] = dialCalls[dq[i].Addr] + 1]_vars

\* C7 witness: an address whose ranked delay has not elapsed was upgraded (its
\* addrDial is simultaneous connect, the request that created it is not) and
\* has been dialed.
C7_Witness ==
  \E a \in DOMAIN trackedDials :
    /\ trackedDials[a].ctx.sim
    /\ trackedDials[a].dialed
    /\ now < startTime + rankerDelay[a]
    /\ \E pr \in pendingRequests :
         pr.req.id = trackedDials[a].ctx.id /\ ~pr.req.ctx.sim
    /\ \E d \in dials : d.addr = a

\* the scenario of C8: the only request read is not simultaneous connect and
\* has the addresses x, ranked at delay 0, and y, ranked at a later delay; the
\* dial to x succeeded before the delay of y had elapsed
Scenario8(x, y) ==
  /\ rankerDelay[x] = 0
  /\ rankerDelay[y] > 0
  /\ nextReq = 2
  /\ reqAddrs[1] = {x, y}
  /\ {x, y} \subseteq DOMAIN trackedDials
  /\ ~trackedDials[x].ctx.sim
  /\ trackedDials[x].conn # NoConn
  /\ connectedAt < startTime + rankerDelay[y]

\* C8 (as claimed): in that scenario the request receives the connection to x
\* and, while the worker keeps running with no pending request, dialNextAddr
\* is never called for y.
C8_NeverDialed ==
  \A x, y \in Addrs :
    Scenario8(x, y) /\ pc = "loop" /\ pendingRequests = {} =>
      /\ resps[1] = <<dialResponse(trackedDials[x].conn, NoErr, {}, "handleSuccess")>>
      /\ dialCalls[y] = 0

\* C8 (amended): in that scenario the request receives the connection to x,
\* and y is not dialed before its delay has elapsed: dialNextAddr is called
\* for y at most once, and not before start time + delay of y.
C8_NotDialedBeforeDelay ==
  \A x, y \in Addrs :
    Scenario8(x, y) =>
      /\ resps[1] = <<dialResponse(trackedDials[x].conn, NoErr, {}, "handleSuccess")>>
      /\ pendingRequests = {}
      /\ dialCalls[y] <= 1
      /\ dialCalls[y] > 0 => now >= startTime + rankerDelay[y]

\* C8 witness: in that scenario the worker, still running with no pending
\* request, has dialed y.
C8_Witness ==
  \E x, y \in Addrs :
    /\ Scenario8(x, y)
    /\ pc = "loop"
    /\ pendingRequests = {}
    /\ dialCalls[y] = 1

\* two pending requests wait for the dial of address a
Shared(a) ==
  /\ trackedDials[a].conn = NoConn
  /\ trackedDials[a].err = NoErr
  /\ \E p1, p2 \in pendingRequests :
       p1.req.id # p2.req.id /\ a \in p1.addrs /\ a \in p2.addrs

\* C10 (as claimed): cancelling the ctx of either of two requests that wait
\* for one addrDial, the one that created it included, leaves the ctx of the
\* dial uncancelled.
C10_NoCancelCascade ==
  [][\A a \in DOMAIN trackedDials :
       (/\ Shared(a)
        /\ ~Cancelled(trackedDials[a].ctx)
        /\ cancelled' # cancelled)
       => trackedDials'[a].ctx.id \notin cancelled']_vars

\* C10 (amended): of two requests that wait for one addrDial, cancelling the
\* ctx of the one that did not create the addrDial leaves the ctx of the dial
\* uncancelled, and cancelling the ctx of the one that created it cancels the
\* ctx of the dial (ad.ctx is req.ctx of the creating request, or its child);
\* a dial in flight runs under the ctx of its addrDial.
C10_OnlyCreatorCancels ==
  /\ [][\A a \in DOMAIN trackedDials, r \in ReqIds :
          (/\ Shared(a)
           /\ ~Cancelled(trackedDials[a].ctx)
           /\ r \in cancelled' \ cancelled)
          => (trackedDials'[a].ctx.id \in cancelled' <=> r = createdBy[a])]_vars
  /\ [](\A d \in dials :
          /\ d.addr \in DOMAIN trackedDials
          /\ d.ctx = trackedDials[d.addr].ctx)

\* C10 witness: of two requests waiting for one dial in flight, the one that
\* did not create the addrDial is cancelled, and the ctx of the dial is not.
C10_Witness ==
  \E a \in DOMAIN trackedDials :
    /\ Shared(a)
    /\ \E d \in dials : d.addr = a /\ ~Cancelled(d.ctx)
    /\ \E pr \in pendingRequests :
         /\ a \in pr.addrs
         /\ pr.req.id # createdBy[a]
         /\ pr.req.id \in cancelled

\* ======================================================================
\* Properties of the UDP mux
\* ======================================================================

\* the flows that storage s holds under ufrag, of either family
flowsOf(s, ufrag) ==
  {s.ufragMap[k] : k \in {x \in DOMAIN s.ufragMap : x.ufrag = ufrag}}

\* the flows that are a value of addrMap
byAddrFlows(s) == {s.addrMap[k] : k \in DOMAIN s.addrMap}

\* the flows that are a value of ufragMap
byUfragFlows(s) == {s.ufragMap[k] : k \in DOMAIN s.ufragMap}

\* the last call returned a flow that GetOrCreateConn was asked for with a UDP address
GotFlow(l) ==
  /\ l.addr.type = "udp"
  /\ l.conn # NoFlow
  /\ \/ l.op = "GetConn" /\ l.err = NoErr
     \/ l.op = "processPacket" /\ l.via \in {"ufrag", "created"}

\* C11 (as claimed): when GetOrCreateConn(ufrag, addr) has returned a flow,
\* created or found, GetConnByAddr(addr) returns that flow; so a binding request
\* from a new address of an existing flow binds the address to the flow.
C11_GetByAddrAfterGetOrCreate ==
  [][GotFlow(last') /\ last' # last
       => storageGetConnByAddr(storage', last'.addr) = [conn |-> last'.conn, ok |-> TRUE]]_vars

\* C12 (as claimed): after RemoveConnByUfrag(ufrag), for every ufrag, the empty
\* one too, ufragMap has no entry of ufrag for either family and addrMap has no
\* entry of a flow that was removed; an absent ufrag is not an error.
C12_RemovedForEveryUfrag ==
  [][last'.op = "RemoveConnByUfrag" /\ last' # last
       => /\ flowsOf(storage', last'.ufrag) = {}
          /\ byAddrFlows(storage') \cap flowsOf(storage, last'.ufrag) = {}
          /\ flowsOf(storage, last'.ufrag) = {} => last'.err = NoErr /\ storage' = storage]_vars

\* C12 (amended): the same for every ufrag that is not the empty string; for
\* the empty string RemoveConnByUfrag leaves the storage as it is.
C12_RemovedForNonEmptyUfrag ==
  [][last'.op = "RemoveConnByUfrag" /\ last' # last
       => IF last'.ufrag = <<>>
          THEN storage' = storage /\ last'.err = NoErr
          ELSE /\ flowsOf(storage', last'.ufrag) = {}
               /\ byAddrFlows(storage') \cap flowsOf(storage, last'.ufrag) = {}
               /\ flowsOf(storage, last'.ufrag) = {}
                    => last'.err = NoErr /\ storage' = storage]_vars

\* C12 witness: RemoveConnByUfrag has removed the IPv4 and the IPv6 flow of a
\* ufrag, both of which had an entry in addrMap.
C12_Witness ==
  /\ last.op = "RemoveConnByUfrag"
  /\ last.ufrag # <<>>
  /\ last.err = NoErr
  /\ \E c, d \in 1..Len(storage.conns) :
       /\ storage.conns[c].ufrag = last.ufrag /\ storage.conns[d].ufrag = last.ufrag
       /\ storage.conns[c].addr.type = "udp" /\ storage.conns[d].addr.type = "udp"
       /\ isIPv6Of(storage.conns[c].addr) /\ ~isIPv6Of(storage.conns[d].addr)
  /\ DOMAIN storage.ufragMap = {}
  /\ DOMAIN storage.addrMap = {}

\* C13 (as claimed): when a call of Close has returned, whichever call it is,
\* the read loop is not running and the ctx is done, so that a GetConn that
\* starts then returns the closed error; every call returns the same.
C13_ClosedAfterReturn ==
  \A c \in Closers :
    closeResult(c) # "running"
      => /\ loopNotRunning
         /\ ctxDone
         /\ \A d \in Closers : closeResult(d) # "running" => closeResult(d) = closeResult(c)

\* C14 (as claimed): GetConn with a nil address on a mux that is not closed
\* returns, without error or panic, the flow of (ufrag, IPv4).
C14_NilAddrAccepted ==
  last.op = "GetConn" /\ last.addr = NilAddr /\ last.err # ErrClosedPipe
    => /\ last.err = NoErr
       /\ ufragConnKey(last.ufrag, FALSE) \in DOMAIN storage.ufragMap
       /\ storage.ufragMap[ufragConnKey(last.ufrag, FALSE)] = last.conn

\* the part of attr after its first colon, said without bytes.Index
afterFirstColon(attr, u) ==
  \E i \in 1..Len(attr) :
    /\ attr[i] = ":"
    /\ \A j \in 1..(i - 1) : attr[j] # ":"
    /\ u = [k \in 1..(Len(attr) - i) |-> attr[i + k]]

\* C15: for a binding request from an address without an addrMap entry,
\* unknownUfragCallback is called if and only if GetOrCreateConn made a new
\* flow for (the ufrag after the first colon of USERNAME, the family of the
\* source); it is called once, with that ufrag and the source; when it
\* succeeds the packet is pushed to that flow, which is the flow of the source
\* in addrMap since its creation; and a packet from an address with an addrMap
\* entry goes to the flow of that entry.
C15_CallbackIffCreated ==
  [][/\ rl.pc = "create" /\ rl' # rl
          => LET key == ufragConnKey(storage'.conns[Len(storage'.conns)].ufrag,
                                     To4IsNil(rl.addr.ip))
                 made == Len(storage'.conns) = Len(storage.conns) + 1
             IN  /\ rl'.pc = "callback" <=> made
                 /\ made => /\ afterFirstColon(rl.attr, key.ufrag)
                            /\ key \notin DOMAIN storage.ufragMap
                            /\ storage'.ufragMap[key] = Len(storage'.conns)
                            /\ rl'.conn = Len(storage'.conns)
                            /\ storageGetConnByAddr(storage', rl.addr)
                                 = [conn |-> rl'.conn, ok |-> TRUE]
                 /\ ~made => /\ \E k \in DOMAIN storage.ufragMap :
                                  /\ afterFirstColon(rl.attr, k.ufrag)
                                  /\ k.isIPv6 = To4IsNil(rl.addr.ip)
                                  /\ last'.conn = storage.ufragMap[k]
                             /\ cbCalls' = cbCalls
     /\ Len(cbCalls') # Len(cbCalls)
          => /\ rl.pc = "callback" /\ rl'.pc # "callback"
             /\ \E u \in Usernames :
                  /\ afterFirstColon(rl.attr, u)
                  /\ cbCalls' = Append(cbCalls, [ufrag |-> u, addr |-> rl.addr, conn |-> rl.conn])
             /\ \A i \in 1..Len(cbCalls) : cbCalls[i].conn # rl.conn
             /\ last'.via = "created"
                  => /\ last'.conn = rl.conn /\ last'.addr = rl.addr
                     /\ storage' = storage
     /\ rl.pc = "read" /\ rl'.pc = "select" /\ storageGetConnByAddr(storage, last'.addr).ok
          => /\ last'.via = "addr"
             /\ last'.conn = storageGetConnByAddr(storage, last'.addr).conn
             /\ cbCalls' = cbCalls]_vars

\* C15 witness: the callback was called for a flow made for a binding request
\* whose USERNAME has two colons, and a later packet from the same source was
\* routed to that flow by its address.
C15_Witness ==
  /\ last.op = "processPacket"
  /\ last.via = "addr"
  /\ \E i \in 1..Len(cbCalls) :
       /\ cbCalls[i].conn = last.conn
       /\ cbCalls[i].addr = last.addr
       /\ cbCalls[i].ufrag = <<":">>

\* ======================================================================
\* The dial queue on its own: any sequence of Add and NextBatch

NumQAddrs == 3
MaxQDelay == 2

QAddrs == 1..NumQAddrs
QDelays == 0..MaxQDelay

notTheQueue == <<pc, now, nextReq, cancelled, reqAddrs, mvars,
                 pendingRequests, trackedDials, connected, dialsInFlight, totalDials,
                 timerRunning, timerAt, dials, resps, swarmConns, closedConns,
                 dialCalls, createdBy, connectedAt, written>>

\* dq.Add(network.AddrDelay{Addr: a, Delay: d})
QueueAdd ==
  /\ \E a \in QAddrs, d \in QDelays :
       LET adelay == [Addr |-> a, Delay |-> d]
       IN  /\ dq' = dqAdd(dq, adelay)
           /\ qlast' = [op |-> "Add", adelay |-> adelay, q |-> dq, batch |-> <<>>]
  /\ UNCHANGED notTheQueue

\* dq.NextBatch()
QueueNextBatch ==
  /\ LET nb == dqNextBatch(dq)
     IN  /\ dq' = nb.rest
         /\ qlast' = [op |-> "NextBatch", adelay |-> [Addr |-> NoAddr, Delay |-> 0],
                      q |-> dq, batch |-> nb.batch]
  /\ UNCHANGED notTheQueue

QueueNext == QueueAdd \/ QueueNextBatch

QueueSpec == Init /\ [][QueueNext]_vars

\* no two entries of q have the same address
OnePerAddr(q) == \A i, j \in 1..Len(q) : q[i].Addr = q[j].Addr => i = j

\* the delays of q do not decrease
ByDelay(q) == \A i, j \in 1..Len(q) : i < j => q[i].Delay <= q[j].Delay

\* the entries of q for other addresses than a, in their order
Others(q, a) == LET other(e) == e.Addr # a IN SelectSeq(q, other)

\* C17: the queue has at most one entry per address and is in non-decreasing
\* order of delay; Add(a, d) leaves exactly one entry for a, with delay d, and
\* the entries of the other addresses as they were; when a was queued with
\* delay d the queue is unchanged.
C17_QueueSortedUnique ==
  /\ OnePerAddr(dq)
  /\ ByDelay(dq)
  /\ qlast.op = "Add"
       => /\ (\E i \in 1..Len(qlast.q) : qlast.q[i] = qlast.adelay) => dq = qlast.q
          /\ \E i \in 1..Len(dq) : dq[i] = qlast.adelay
          /\ Others(dq, qlast.adelay.Addr) = Others(qlast.q, qlast.adelay.Addr)

\* C17 witness: Add for an address that was queued with another delay, in a
\* queue of three entries, has moved the entry.
C17_Witness ==
  /\ qlast.op = "Add"
  /\ Len(qlast.q) = 3
  /\ Len(dq) = 3
  /\ dq # qlast.q
  /\ \E i \in 1..3 : /\ qlast.q[i].Addr = qlast.adelay.Addr
                      /\ qlast.q[i].Delay # qlast.adelay.Delay

\* the entries of q with delay d, and with a larger delay, in their order
WithDelay(q, d) == LET at(e) == e.Delay = d IN SelectSeq(q, at)
Above(q, d) == LET later(e) == e.Delay > d IN SelectSeq(q, later)
MinDelay(q) == Min({q[i].Delay : i \in 1..Len(q)})

\* C18: NextBatch returns the entries whose delay is the minimum of the queue
\* and leaves the entries with a larger delay, in their order; on an empty
\* queue it returns nothing; and NextBatch right after Add(a, d) returns a
\* exactly when d is the minimum delay of the queue.
C18_NextBatchIsMinDelay ==
  [][qlast'.op = "NextBatch"
       => /\ qlast'.q = dq
          /\ dq = <<>> => qlast'.batch = <<>> /\ dq' = <<>>
          /\ dq # <<>> => /\ qlast'.batch = WithDelay(dq, MinDelay(dq))
                          /\ dq' = Above(dq, MinDelay(dq))
          /\ qlast.op = "Add"
               => ((\E i \in 1..Len(qlast'.batch) : qlast'.batch[i].Addr = qlast.adelay.Addr)
                     <=> qlast.adelay.Delay = MinDelay(dq))]_vars

\* C18 witness: NextBatch returned two entries of the same delay and left one.
C18_Witness ==
  /\ qlast.op = "NextBatch"
  /\ Len(qlast.batch) = 2
  /\ Len(dq) = 1

\* ======================================================================
\* The dial worker: counters, queue, pacing, order of the responses

\* the addrDials that were dialed and have no terminal result yet
InFlight == {a \in DOMAIN trackedDials : /\ trackedDials[a].dialed
                                         /\ trackedDials[a].conn = NoConn
                                         /\ trackedDials[a].err = NoErr}

\* C16: while the loop runs, dialsInFlight is the number of addrDials that
\* were dialed and for which neither a terminal result arrived nor
\* dialNextAddr returned an error; it is never negative.
C16_DialsInFlightCount ==
  pc = "loop" => /\ dialsInFlight = Cardinality(InFlight)
                 /\ dialsInFlight >= 0

\* C16 witness: two dials were made, one has ended with an error and the
\* other is still in flight.
C16_Witness ==
  /\ pc = "loop"
  /\ dialsInFlight = 1
  /\ totalDials = 2
  /\ \E a \in DOMAIN trackedDials : trackedDials[a].dialed /\ trackedDials[a].err = "ErrDial"

\* a step of the loop's select: a request, the timer or a result was handled
LoopStep == /\ pc = "loop" /\ pc' = "loop"
            /\ (nextReq' # nextReq \/ wvars' # wvars)

\* the batch of a timer step is handed to dialNextAddr when it is due, or
\* when nothing is in flight and nothing is connected
DialedWhenDue ==
  \A a \in Addrs :
    dialCalls'[a] # dialCalls[a]
      => \E i \in 1..Len(dq) :
           /\ dq[i].Addr = a
           /\ dq[i].Delay = dqTop(dq).Delay
           /\ \/ now >= startTime + dq[i].Delay
              \/ dialsInFlight = 0 /\ ~connected

\* C19 as stated: after every step of the loop the timer is running if and
\* only if the queue is not empty, and the batch is dialed when it is due or
\* when nothing is in flight and nothing is connected.
C19_ArmedIffQueued ==
  [][/\ LoopStep => (timerRunning' <=> dq' # <<>>)
     /\ DialedWhenDue]_vars

\* C19, as far as the code goes: while the loop runs the timer is set to an
\* instant of the pacing if and only if the queue is not empty: to the start
\* time when nothing is in flight and nothing is connected, otherwise to the
\* start time plus the delay of the top of the queue; it is stopped when the
\* queue is empty after a scheduleNextDial, and until the first
\* scheduleNextDial it runs with the instant of construction, which never
\* comes; and the batch is dialed when it is due or when nothing is in flight
\* and nothing is connected.
C19_PacedByTimer ==
  /\ [](pc = "loop"
          => /\ (timerRunning /\ timerAt # NeverFires) <=> dq # <<>>
             /\ timerRunning /\ timerAt = NeverFires => totalDials = 0 /\ trackedDials = <<>>
             /\ dq # <<>> => timerAt = IF dialsInFlight = 0 /\ ~connected
                                        THEN startTime
                                        ELSE startTime + dqTop(dq).Delay)
  /\ [][DialedWhenDue]_vars

\* C19 witness: an address of delay 1 was dialed at the start time, as the
\* dial before it had failed and nothing was connected; and the timer is
\* stopped on an empty queue.
C19_Witness ==
  /\ pc = "loop"
  /\ now = startTime
  /\ ~timerRunning
  /\ dq = <<>>
  /\ \E a, b \in DOMAIN trackedDials :
       /\ rankerDelay[b] = 0 /\ trackedDials[b].err = "ErrDial"
       /\ rankerDelay[a] = 1 /\ dialCalls[a] = 1 /\ ~trackedDials[a].ctx.sim
  /\ ~connected

\* the address whose dial succeeded in this step
Succeeded(a) == /\ a \in DOMAIN trackedDials
                /\ a \in DOMAIN trackedDials'
                /\ trackedDials[a].conn = NoConn
                /\ trackedDials'[a].conn # NoConn

\* every request that waited for address a has its response in this step,
\* written once; the timer was set after that, with connected set
AllWrittenThenScheduled(a) ==
  LET hit == {pr.req.id : pr \in waiters(W, a)}
  IN  /\ {written'[i] : i \in 1..Len(written')} = hit
      /\ Len(written') = Cardinality(hit)
      /\ \A r \in hit : /\ resps'[r] = Append(resps[r], dialResponse(trackedDials'[a].conn,
                                                                    NoErr, {}, "handleSuccess"))
                        /\ \A pr \in pendingRequests' : pr.req.id # r
      /\ \A r \in ReqIds \ hit : resps'[r] = resps[r]
      /\ connected'
      /\ dq' # <<>> => timerRunning' /\ timerAt' = startTime + dqTop(dq').Delay

\* C20 as stated: the responses of a successful dial are written in the order
\* in which the requests were registered (the order of their numbers), all of
\* them before scheduleNextDial.
C20_WrittenInRegistrationOrder ==
  [][\A a \in Addrs :
       Succeeded(a) => /\ AllWrittenThenScheduled(a)
                       /\ \A i, j \in 1..Len(written') :
                            i < j => written'[i] < written'[j]]_vars

\* C20, as far as the code goes: a successful dial answers every pending
\* request that contains the address, each once, in the order in which the
\* range over the map pendingRequests visits them, which is any order; all of
\* them are written before scheduleNextDial runs.
C20_AllWrittenBeforeSchedule ==
  [][\A a \in Addrs :
       Succeeded(a) => /\ AllWrittenThenScheduled(a)
                       /\ \E order \in Orders :
                            written' = visited(order, waiters(W, a))]_vars

\* C20 witness: a successful dial has answered two requests, the one
\* registered later first, and the queue still holds an address.
C20_Witness ==
  /\ pc = "loop"
  /\ written = <<2, 1>>
  /\ connected
  /\ dq # <<>>
  /\ timerRunning

\* ======================================================================
\* The flow table on its own: the calls of udpMuxStorage in any order

TableUfrags == ApiUfrags \cup {<<"a", "a">>}

notTheTable == <<ctxDone, socketClosed, rl, closers, getter, cbCalls, wkvars>>

\* what a call on the table returned
tableCall(op, ufrag, addr, conn, panic, created) ==
  [op |-> op, ufrag |-> ufrag, addr |-> addr, conn |-> conn,
   err |-> IF panic THEN Panic ELSE NoErr, created |-> created, via |-> "none",
   processed |-> FALSE]

\* mux.storage.GetOrCreateConn(ufrag, isIPv6, mux, addr), as GetConn and
\* processPacket call it: isIPv6 is that of addr
TableGetOrCreate ==
  /\ \E ufrag \in TableUfrags, addr \in UDPAddrs \cup {NilAddr} :
       /\ mayCreate(storage, ufrag, isIPv6Of(addr))
       /\ LET r == storageGetOrCreateConn(storage, ufrag, isIPv6Of(addr), addr)
          IN  /\ storage' = r.s
              /\ last' = tableCall("GetOrCreateConn", ufrag, addr, r.conn, r.panic, r.created)
  /\ UNCHANGED notTheTable

\* mux.storage.GetConnByAddr(udpAddr)
TableGetByAddr ==
  /\ \E addr \in UDPAddrs :
       last' = tableCall("GetConnByAddr", <<>>, addr,
                         storageGetConnByAddr(storage, addr).conn, FALSE, FALSE)
  /\ UNCHANGED storage
  /\ UNCHANGED notTheTable

\* mux.RemoveConnByUfrag(ufrag)
TableRemove ==
  /\ \E ufrag \in TableUfrags :
       LET r == IF ufrag # <<>> THEN storageRemoveConnByUfrag(storage, ufrag)
                ELSE [s |-> storage, panic |-> FALSE]
       IN  /\ storage' = r.s
           /\ last' = tableCall("RemoveConnByUfrag", ufrag, NilAddr, NoFlow, r.panic, FALSE)
  /\ UNCHANGED notTheTable

\* a holder of a flow closes it: the close hook runs s.RemoveConnByUfrag(ufrag)
TableConnClose ==
  /\ \E conn \in 1..Len(storage.conns) :
       /\ ~storage.conns[conn].closed
       /\ LET r == connClose(storage, conn)
          IN  /\ storage' = r.s
              /\ last' = tableCall("Close", storage.conns[conn].ufrag, NilAddr, conn,
                                   r.panic, FALSE)
  /\ UNCHANGED notTheTable

TableNext == TableGetOrCreate \/ TableGetByAddr \/ TableRemove \/ TableConnClose

TableSpec == Init /\ [][TableNext]_vars

\* C21: every flow that is a value of addrMap is a value of ufragMap.
C21_ByAddrIsByUfrag == byAddrFlows(storage) \subseteq byUfragFlows(storage)

\* C21 witness: two flows were made, one was removed through the table and
\* the other is a value of addrMap and of ufragMap.
C21_Witness ==
  /\ last.op \in {"RemoveConnByUfrag", "Close"}
  /\ Len(storage.conns) = 2
  /\ Cardinality(byUfragFlows(storage)) = 1
  /\ byAddrFlows(storage) = byUfragFlows(storage)

\* ======================================================================
\* The read loop and a callback that fails

\* the callback has failed in this step of processPacket
CallbackFailed == /\ rl.pc = "callback"
                  /\ Len(cbCalls') = Len(cbCalls) + 1
                  /\ last'.via = "callbackErr"

\* the flow of the failed callback is closed and out of both maps, and the
\* packet went to no flow: processPacket returned false, readLoop puts the
\* buffer back
ClosedAndDropped ==
  /\ storage'.conns[rl.conn].closed
  /\ rl.conn \notin byUfragFlows(storage')
  /\ rl.conn \notin byAddrFlows(storage')
  /\ last'.op = "processPacket" /\ last'.conn = NoFlow /\ ~last'.processed

\* the goroutine of readLoop ends in this step
LoopStops == rl.pc \notin {"notStarted", "exited", "panicked"}
               /\ rl'.pc \in {"exited", "panicked"}

\* a flow that was closed is in neither map
ClosedFlowsGone ==
  \A c \in 1..Len(storage.conns) :
    storage.conns[c].closed => c \notin byUfragFlows(storage) \cup byAddrFlows(storage)

\* C22 as stated: when the callback fails for the flow just made, the flow is
\* closed and has no entry in ufragMap or addrMap, the packet is pushed to no
\* flow and its buffer is put back, and readLoop goes on to the next
\* datagram; readLoop ends only on a read error or when the ctx is done.
C22_CallbackErrorDropsFlow ==
  /\ []ClosedFlowsGone
  /\ [][/\ CallbackFailed => ClosedAndDropped /\ rl'.pc = "select"
        /\ LoopStops => \/ rl.pc = "read" /\ rl'.pc = "exited"
                        \/ rl.pc = "select" /\ ctxDone /\ rl'.pc = "exited"]_vars

\* a flow with a nil address is registered under the ufrag of the flow that
\* is being closed: the close hook panics at conn.Address().String()
HookPanics ==
  \E k \in DOMAIN storage.ufragMap :
    /\ k.ufrag = storage.conns[rl.conn].ufrag
    /\ Address(storage, storage.ufragMap[k]) = NilAddr

\* C22, as far as the code goes: the flow of a failed callback is closed and
\* out of both maps and the packet goes to no flow; readLoop goes on to the
\* next datagram unless the close hook panics, which it does exactly when a
\* flow with a nil address is registered under the same ufrag; apart from
\* that panic readLoop ends only on a read error or when the ctx is done.
C22_DropsFlowUnlessHookPanics ==
  /\ []ClosedFlowsGone
  /\ [][/\ CallbackFailed => /\ ClosedAndDropped
                             /\ rl'.pc = IF HookPanics THEN "panicked" ELSE "select"
        /\ LoopStops => \/ rl.pc = "read" /\ rl'.pc = "exited"
                        \/ rl.pc = "select" /\ ctxDone /\ rl'.pc = "exited"
                        \/ CallbackFailed /\ HookPanics]_vars

\* ======================================================================
\* The frame of a removal

\* this step removes by ufrag: RemoveConnByUfrag, or the close hook of a flow
Removes == last'.op \in {"RemoveConnByUfrag", "Close"}

\* the ufragMap entries of other ufrags than that of the removal stay
UfragMapFrame ==
  \A k \in DOMAIN storage.ufragMap :
    k.ufrag # last'.ufrag => /\ k \in DOMAIN storage'.ufragMap
                             /\ storage'.ufragMap[k] = storage.ufragMap[k]

\* C23 as stated: a removal by ufrag u leaves every ufragMap entry and every
\* addrMap entry of a flow whose ufrag is not u as it was, also when two
\* flows of different ufrags were made with the same remote address.
C23_RemovalFrame ==
  [][Removes
       => /\ UfragMapFrame
          /\ \A x \in DOMAIN storage.addrMap :
               storage.conns[storage.addrMap[x]].ufrag # last'.ufrag
                 => /\ x \in DOMAIN storage'.addrMap
                    /\ storage'.addrMap[x] = storage.addrMap[x]]_vars

\* C23, as far as the code goes: a removal by ufrag u leaves the ufragMap
\* entries of other ufrags as they were, and every addrMap entry whose
\* address is not the address of a flow registered under u.
C23_FrameByAddress ==
  [][Removes
       => /\ UfragMapFrame
          /\ \A x \in DOMAIN storage.addrMap :
               (\A c \in flowsOf(storage, last'.ufrag) :
                   Address(storage, c) = NilAddr \/ addrString(Address(storage, c)) # x)
                 => /\ x \in DOMAIN storage'.addrMap
                    /\ storage'.addrMap[x] = storage.addrMap[x]]_vars

====
